---- MODULE Spec2Model ----
(***************************************************************************)
(* Model of the three scripts of mana_meeples_singles_market:              *)
(*   scripts/imports/justtcg_api_test.py   (the detail fetcher)            *)
(*   scripts/imports/justtcg_list_games.py (the catalog fetcher)           *)
(*   generate_tree.py                      (the directory-tree printer)    *)
(* Each fetch script is a straight line "check key, GET, validate,         *)
(* reshape, write"; a run is modelled statement group by statement group,  *)
(* the position being pc.  The network answer and the environment are the  *)
(* inputs.  Python values and JSON documents are kept apart, so that       *)
(* resp.json() and json.dump() are conversions and not the identity.       *)
(***************************************************************************)
EXTENDS Integers, Sequences, FiniteSets, TLC

VARIABLES
    script,         \* which script this run executes: "detail" | "catalog"
    pc,             \* position of the run in the script
    runs,           \* number of runs started so far
    env,            \* the JUSTTCG_API_KEY environment variable of this run
    API_KEY,        \* module variable API_KEY
    request,        \* the HTTP request this run has issued, if any
    resp,           \* resp / response: the HTTP response object
    body,           \* body / data: the parsed response
    cards,          \* cards / sets: the value of body.get("data", [])
    idx,            \* how many elements of cards the for loop has finished
    flat_variants,  \* flat_variants / simple_list: the reshaped rows
    error,          \* the exception that ended the run, "none" if none
    fs,             \* the working directory: file name -> JSON document
    prior,          \* the working directory as this run found it
    tree,           \* generate_tree.py: the directory under start_path
    indent,         \* generate_tree.py: the indent argument
    lines           \* generate_tree.py: the returned markdown_lines

vars == <<script, pc, runs, env, API_KEY, request, resp, body, cards, idx,
          flat_variants, error, fs, prior, tree, indent, lines>>

fetchVars == <<script, runs, env, API_KEY, request, resp, body, cards, idx,
               flat_variants, error, fs, prior>>

treeVars == <<tree, indent, lines>>

----------------------------------------------------------------------------
(* Bounds of the model *)

MaxRuns == 2        \* runs of a fetch script against one working directory
MaxItems == 2       \* length of the "data" list of a response
MaxNodes == 3       \* files and directories below start_path
MaxIndent == 1      \* the indent argument of generate_markdown_tree

----------------------------------------------------------------------------
(* JSON documents (what is on the wire and in the files) *)

JNull == [j |-> "null"]
JStr(s) == [j |-> "string", s |-> s]
JNum(n) == [j |-> "number", n |-> n]
JArr(q) == [j |-> "array", a |-> q]
JObj(f) == [j |-> "object", o |-> f]
NotJson == [j |-> "invalid"]

(* Python values *)
None == [t |-> "NoneType"]
PyStr(s) == [t |-> "str", s |-> s]
PyInt(n) == [t |-> "int", n |-> n]
PyList(q) == [t |-> "list", items |-> q]
PyDict(f) == [t |-> "dict", kv |-> f]
Unbound == [t |-> "unbound"]

EmptyMap == [k \in {} |-> None]

RECURSIVE json_loads(_)
json_loads(v) ==
    CASE v.j = "null" -> None
      [] v.j = "string" -> PyStr(v.s)
      [] v.j = "number" -> PyInt(v.n)
      [] v.j = "array" -> PyList([i \in 1..Len(v.a) |-> json_loads(v.a[i])])
      [] v.j = "object" -> PyDict([k \in DOMAIN v.o |-> json_loads(v.o[k])])

RECURSIVE json_dump(_)
json_dump(v) ==
    CASE v.t = "NoneType" -> JNull
      [] v.t = "str" -> JStr(v.s)
      [] v.t = "int" -> JNum(v.n)
      [] v.t = "list" -> JArr([i \in 1..Len(v.items) |-> json_dump(v.items[i])])
      [] v.t = "dict" -> JObj([k \in DOMAIN v.kv |-> json_dump(v.kv[k])])

(* d.get(k, dflt) of a dict d *)
Get(d, k, dflt) == IF k \in DOMAIN d.kv THEN d.kv[k] ELSE dflt

(* only a dict has .get: anything else raises AttributeError *)
HasGet(v) == v.t = "dict"

(* bool(v) *)
Truthy(v) ==
    CASE v.t = "NoneType" -> FALSE
      [] v.t = "str" -> v.s # ""
      [] v.t = "int" -> v.n # 0
      [] v.t = "list" -> Len(v.items) > 0
      [] v.t = "dict" -> DOMAIN v.kv # {}

(* iter(v) succeeds: otherwise the for statement raises TypeError *)
Iterable(v) == v.t \in {"list", "str", "dict"}

SetToSeq(S) ==
    CHOOSE q \in [1..Cardinality(S) -> S] : \A x \in S : \E i \in DOMAIN q : q[i] = x

(* the elements a for loop over v visits: a str yields its characters, a
   dict its keys *)
Iter(v) ==
    CASE v.t = "list" -> v.items
      [] v.t = "str" -> [i \in 1..Len(v.s) |-> PyStr(SubSeq(v.s, i, i))]
      [] v.t = "dict" -> [i \in 1..Cardinality(DOMAIN v.kv) |->
                             PyStr(SetToSeq(DOMAIN v.kv)[i])]

(* {**a, **b}: the later keys win *)
Merge(a, b) ==
    [k \in DOMAIN a \cup DOMAIN b |-> IF k \in DOMAIN b THEN b[k] ELSE a[k]]

(* s.startswith(p) and p in s *)
StartsWith(s, p) == Len(s) >= Len(p) /\ SubSeq(s, 1, Len(p)) = p
Contains(s, p) ==
    \E i \in 1..(Len(s) - Len(p) + 1) : SubSeq(s, i, i + Len(p) - 1) = p

----------------------------------------------------------------------------
(* What the two fetch scripts share: the environment, the network, the files *)

EnvUnset == [set |-> FALSE]
EnvSet(v) == [set |-> TRUE, v |-> v]

(* os.getenv(name, default): the default only when the variable is unset *)
getenv(e, default) == IF e.set THEN e.v ELSE default

NoRequest == [sent |-> FALSE]
NoResponse == [received |-> FALSE]
Response(code, text) == [received |-> TRUE, status_code |-> code, text |-> text]

(* a raise_for_status that lets the 4xx statuses through *)
RaisesForServerErrorOnly(code) == code >= 500 /\ code < 600

(* Response.raise_for_status(): HTTPError for a 4xx or 5xx status *)
RaisesForStatus(code) == code >= 400 /\ code < 600

(* open(name, "a"): the rows are added to those the file holds *)
WriteFileAppending(files, name, doc) ==
    [n \in DOMAIN files \cup {name} |->
        IF n # name THEN files[n]
        ELSE IF name \in DOMAIN files THEN JArr(files[name].a \o doc.a)
        ELSE doc]

(* open(name, "w") followed by json.dump(doc, f): the file holds doc alone *)
WriteFile(files, name, doc) ==
    [n \in DOMAIN files \cup {name} |-> IF n = name THEN doc ELSE files[n]]

SeqsUpTo(S, n) == UNION {[1..k -> S] : k \in 0..n}

ErrorBody == JObj([error |-> JStr("not found")])

(* answers whose "data" is absent or no list, or that are no object, or no
   JSON at all *)
MalformedBodies ==
    { JObj([data |-> JStr("not-a-list")]),
      JObj([data |-> JStr("")]),
      JObj([data |-> JObj(EmptyMap)]),
      JObj([data |-> JObj([code |-> JNum(7)])]),
      JObj([data |-> JNull]),
      JObj([data |-> JNum(0)]),
      ErrorBody,
      JArr(<<>>),
      NotJson }

----------------------------------------------------------------------------
(* scripts/imports/justtcg_api_test.py *)

(* the literal of line 7: "tcg_" and 32 hex digits, the digits withheld here *)
FALLBACK_KEY == "tcg_00000000000000000000000000000000"
BASE_URL == "https://api.justtcg.com/v1"
GAME_ID == "pokemon"
SET_ID == "sv-black-bolt-pokemon"
CARD_NUMBER == "1"
CONDITION == "NM"

(* f"pokemon_{SET_ID}_card_{CARD_NUMBER}_variants.json" *)
VariantsFileName(set_id, card_number) ==
    "pokemon_" \o set_id \o "_card_" \o card_number \o "_variants.json"

OUTPUT_FILE == VariantsFileName(SET_ID, CARD_NUMBER)

headers(key) == ("x-api-key" :> key) @@ ("Accept" :> "application/json")

params ==
    [game |-> GAME_ID, set |-> SET_ID, limit |-> 20, condition |-> CONDITION,
     q |-> "Snivy"]

(* the check of line 9 without its "not API_KEY" *)
DetailKeyRejectedPlaceholderOnly(key) == StartsWith(key, "YOUR_")

(* line 9: not API_KEY or API_KEY.startswith("YOUR_") *)
DetailKeyRejected(key) == key = "" \/ StartsWith(key, "YOUR_")

(* lines 50-62 *)
base(card) ==
    [card_id |-> Get(card, "id", None),
     name |-> Get(card, "name", None),
     game |-> Get(card, "game", None),
     set_id |-> Get(card, "set", None),
     set_name |-> Get(card, "set_name", None),
     number |-> Get(card, "number", None),
     rarity |-> Get(card, "rarity", None),
     details |-> Get(card, "details", None),
     tcgplayerId |-> Get(card, "tcgplayerId", None),
     mtgjsonId |-> Get(card, "mtgjsonId", None),
     scryfallId |-> Get(card, "scryfallId", None)]

(* lines 67-76 *)
VariantFields(v) ==
    [variant_id |-> Get(v, "id", None),
     condition |-> Get(v, "condition", None),
     printing |-> Get(v, "printing", None),
     language |-> Get(v, "language", None),
     tcgplayerSkuId |-> Get(v, "tcgplayerSkuId", None),
     price |-> Get(v, "price", None),
     lastUpdated |-> Get(v, "lastUpdated", None),
     priceChange24hr |-> Get(v, "priceChange24hr", None),
     priceChange7d |-> Get(v, "priceChange7d", None),
     avgPrice |-> Get(v, "avgPrice", None)]

(* a row whose variant part also copies the variant's "name" *)
FlatVariantClobberingName(card, v) ==
    PyDict(Merge(base(card),
                 Merge(VariantFields(v), [name |-> Get(v, "name", None)])))

(* lines 65-78: {**base, "variant_id": ..., ...} *)
FlatVariant(card, v) == PyDict(Merge(base(card), VariantFields(v)))

(* a flattening that emits one placeholder row for a card without variants *)
VariantsOfWithPlaceholder(card) ==
    IF Truthy(Get(card, "variants", None))
    THEN Get(card, "variants", None)
    ELSE PyList(<<PyDict(EmptyMap)>>)

(* line 64: card.get("variants") or [] *)
VariantsOf(card) ==
    IF Truthy(Get(card, "variants", None))
    THEN Get(card, "variants", None)
    ELSE PyList(<<>>)

(* how many leading elements of q the inner loop handles before v.get
   raises *)
RECURSIVE GoodPrefix(_)
GoodPrefix(q) ==
    IF q = <<>> \/ ~HasGet(Head(q)) THEN 0 ELSE 1 + GoodPrefix(Tail(q))

(* the "data" items the API may answer with: a card with two variants, cards
   with none ("variants" empty, null, absent), a card whose second variant is
   no object, and an item that is no object *)
Variant1 ==
    JObj([id |-> JStr("v1"), condition |-> JStr("NM"), printing |-> JStr("Normal"),
          language |-> JStr("English"), price |-> JNum(5),
          name |-> JStr("v1-name"), number |-> JStr("9")])
Variant2 ==
    JObj([id |-> JStr("v2"), condition |-> JStr("NM"), printing |-> JStr("Holofoil"),
          price |-> JNum(0), priceChange24hr |-> JNull])
Card1 ==
    JObj([id |-> JStr("c1"), name |-> JStr("Snivy"), game |-> JStr("pokemon"),
          set |-> JStr("sv-black-bolt-pokemon"), set_name |-> JStr(""),
          number |-> JStr("1"), rarity |-> JNull, tcgplayerId |-> JNum(0),
          condition |-> JStr("card-level"),
          variants |-> JArr(<<Variant1, Variant2>>)])
CardEmptyVariants == JObj([id |-> JStr("c3"), variants |-> JArr(<<>>)])
CardNullVariants == JObj([id |-> JStr("c4"), variants |-> JNull])
CardNoVariants == JObj([id |-> JStr("c5"), name |-> JStr("Servine")])
CardBadVariant ==
    JObj([id |-> JStr("c6"), variants |-> JArr(<<Variant1, JStr("oops")>>)])
NotACard == JStr("oops")

CardPool ==
    {Card1, CardEmptyVariants, CardNullVariants, CardNoVariants, CardBadVariant,
     NotACard}

DetailBodies ==
    {JObj([data |-> JArr(q)]) : q \in SeqsUpTo(CardPool, MaxItems)}
        \cup MalformedBodies

(* what requests.get can come back with: None stands for the exception of a
   timeout or a connection failure *)
Answers(bodies) ==
    {Response(200, b) : b \in bodies}
        \cup {Response(code, ErrorBody) : code \in {404, 500}}

(* lines 7-10 *)
DetailConfig ==
    /\ script = "detail" /\ pc = "config"
    /\ API_KEY' = PyStr(getenv(env, FALLBACK_KEY))
    /\ IF DetailKeyRejected(getenv(env, FALLBACK_KEY))
       THEN pc' = "failed" /\ error' = "RuntimeError"
       ELSE pc' = "request" /\ error' = error
    /\ UNCHANGED <<script, runs, env, request, resp, body, cards, idx,
                   flat_variants, fs, prior, treeVars>>

(* line 38 *)
DetailRequest ==
    /\ script = "detail" /\ pc = "request"
    /\ request' = [sent |-> TRUE, url |-> BASE_URL \o "/cards",
                   headers |-> headers(API_KEY.s), params |-> params]
    /\ \/ \E r \in Answers(DetailBodies) :
              resp' = r /\ pc' = "status" /\ error' = error
       \/ resp' = resp /\ pc' = "failed" /\ error' = "RequestException"
    /\ UNCHANGED <<script, runs, env, API_KEY, body, cards, idx, flat_variants,
                   fs, prior, treeVars>>

(* lines 39-40 *)
DetailStatus ==
    /\ script = "detail" /\ pc = "status"
    /\ IF RaisesForStatus(resp.status_code)
       THEN pc' = "failed" /\ error' = "HTTPError" /\ body' = body
       ELSE IF resp.text = NotJson
       THEN pc' = "failed" /\ error' = "JSONDecodeError" /\ body' = body
       ELSE pc' = "shape" /\ error' = error /\ body' = json_loads(resp.text)
    /\ UNCHANGED <<script, runs, env, API_KEY, request, resp, cards, idx,
                   flat_variants, fs, prior, treeVars>>

(* lines 42-47 *)
DetailShape ==
    /\ script = "detail" /\ pc = "shape"
    /\ IF ~HasGet(body)
       THEN pc' = "failed" /\ error' = "AttributeError" /\ cards' = cards
       ELSE /\ cards' = Get(body, "data", PyList(<<>>))
            /\ IF cards'.t # "list"
               THEN pc' = "failed" /\ error' = "RuntimeError"
               ELSE /\ pc' = IF Len(cards'.items) = 0 THEN "write" ELSE "flatten"
                    /\ error' = error
    /\ idx' = 0 /\ flat_variants' = <<>>
    /\ UNCHANGED <<script, runs, env, API_KEY, request, resp, body, fs, prior,
                   treeVars>>

(* lines 49-78: one pass of the outer loop, the inner loop included *)
DetailFlattenCard ==
    /\ script = "detail" /\ pc = "flatten" /\ idx < Len(cards.items)
    /\ LET card == cards.items[idx + 1] IN
       IF ~HasGet(card)
       THEN pc' = "failed" /\ error' = "AttributeError"
            /\ UNCHANGED <<idx, flat_variants>>
       ELSE IF ~Iterable(VariantsOf(card))
       THEN pc' = "failed" /\ error' = "TypeError"
            /\ UNCHANGED <<idx, flat_variants>>
       ELSE LET vs == Iter(VariantsOf(card))
                n == GoodPrefix(vs)
            IN /\ flat_variants' =
                      flat_variants \o [k \in 1..n |-> FlatVariant(card, vs[k])]
               /\ IF n < Len(vs)
                  THEN pc' = "failed" /\ error' = "AttributeError" /\ idx' = idx
                  ELSE /\ idx' = idx + 1
                       /\ pc' = IF idx + 1 = Len(cards.items)
                                THEN "write" ELSE "flatten"
                       /\ error' = error
    /\ UNCHANGED <<script, runs, env, API_KEY, request, resp, body, cards, fs,
                   prior, treeVars>>

(* lines 83-84 *)
DetailWrite ==
    /\ script = "detail" /\ pc = "write"
    /\ fs' = WriteFile(fs, OUTPUT_FILE, json_dump(PyList(flat_variants)))
    /\ pc' = "done"
    /\ UNCHANGED <<script, runs, env, API_KEY, request, resp, body, cards, idx,
                   flat_variants, error, prior, treeVars>>

----------------------------------------------------------------------------
(* scripts/imports/justtcg_list_games.py *)

(* line 6: the key is a literal of the script, which line 9 asks the user to
   replace; the literal as committed (its digits withheld as in FALLBACK_KEY),
   the placeholder and an emptied one *)
CATALOG_KEY == "tcg_00000000000000000000000000000000"
CatalogKeyLiterals == {CATALOG_KEY, "YOUR_API_KEY_HERE", ""}

url == "https://api.justtcg.com/v1/sets?game=pokemon"
output_file == "pokemon_sets.json"

(* line 8: not API_KEY or "YOUR_API_KEY_HERE" in API_KEY *)
CatalogKeyRejected(key) == key = "" \/ Contains(key, "YOUR_API_KEY_HERE")

(* a mapping that defaults the two counters to 0 *)
CatalogEntryZeroDefault(s) ==
    PyDict([id |-> Get(s, "id", None),
            name |-> Get(s, "name", None),
            variants_count |-> Get(s, "variants_count", PyInt(0)),
            cards_count |-> Get(s, "cards_count", PyInt(0))])

(* lines 27-32 *)
CatalogEntry(s) ==
    PyDict([id |-> Get(s, "id", None),
            name |-> Get(s, "name", None),
            variants_count |-> Get(s, "variants_count", None),
            cards_count |-> Get(s, "cards_count", None)])

Set1 ==
    JObj([id |-> JStr("s1"), name |-> JStr("Set One"), variants_count |-> JNum(3),
          cards_count |-> JNum(10)])
Set2 ==
    JObj([id |-> JStr("s2"), name |-> JStr(""), cards_count |-> JNum(0),
          game |-> JStr("pokemon")])
NotASet == JNum(4)

SetPool == {Set1, Set2, NotASet}

CatalogBodies ==
    {JObj([data |-> JArr(q)]) : q \in SeqsUpTo(SetPool, MaxItems)}
        \cup MalformedBodies

(* lines 6-9 *)
CatalogConfig ==
    /\ script = "catalog" /\ pc = "config"
    /\ \E literal \in CatalogKeyLiterals :
          /\ API_KEY' = PyStr(literal)
          /\ IF CatalogKeyRejected(literal)
             THEN pc' = "failed" /\ error' = "RuntimeError"
             ELSE pc' = "request" /\ error' = error
    /\ UNCHANGED <<script, runs, env, request, resp, body, cards, idx,
                   flat_variants, fs, prior, treeVars>>

(* line 18 *)
CatalogRequest ==
    /\ script = "catalog" /\ pc = "request"
    /\ request' = [sent |-> TRUE, url |-> url, headers |-> headers(API_KEY.s)]
    /\ \/ \E r \in Answers(CatalogBodies) :
              resp' = r /\ pc' = "status" /\ error' = error
       \/ resp' = resp /\ pc' = "failed" /\ error' = "RequestException"
    /\ UNCHANGED <<script, runs, env, API_KEY, body, cards, idx, flat_variants,
                   fs, prior, treeVars>>

(* lines 19-21 *)
CatalogStatus ==
    /\ script = "catalog" /\ pc = "status"
    /\ IF RaisesForStatus(resp.status_code)
       THEN pc' = "failed" /\ error' = "HTTPError" /\ body' = body
       ELSE IF resp.text = NotJson
       THEN pc' = "failed" /\ error' = "JSONDecodeError" /\ body' = body
       ELSE pc' = "shape" /\ error' = error /\ body' = json_loads(resp.text)
    /\ UNCHANGED <<script, runs, env, API_KEY, request, resp, cards, idx,
                   flat_variants, fs, prior, treeVars>>

(* lines 24-34: sets = data.get("data", []) and the list comprehension, which
   binds simple_list only when every s.get succeeded *)
CatalogReshape ==
    /\ script = "catalog" /\ pc = "shape"
    /\ IF ~HasGet(body)
       THEN pc' = "failed" /\ error' = "AttributeError"
            /\ UNCHANGED <<cards, flat_variants>>
       ELSE /\ cards' = Get(body, "data", PyList(<<>>))
            /\ IF ~Iterable(cards')
               THEN pc' = "failed" /\ error' = "TypeError"
                    /\ flat_variants' = flat_variants
               ELSE IF \E i \in DOMAIN Iter(cards') : ~HasGet(Iter(cards')[i])
               THEN pc' = "failed" /\ error' = "AttributeError"
                    /\ flat_variants' = flat_variants
               ELSE /\ flat_variants' =
                          [i \in DOMAIN Iter(cards') |-> CatalogEntry(Iter(cards')[i])]
                    /\ pc' = "write" /\ error' = error
    /\ UNCHANGED <<script, runs, env, API_KEY, request, resp, body, idx, fs,
                   prior, treeVars>>

(* lines 39-40 *)
CatalogWrite ==
    /\ script = "catalog" /\ pc = "write"
    /\ fs' = WriteFile(fs, output_file, json_dump(PyList(flat_variants)))
    /\ pc' = "done"
    /\ UNCHANGED <<script, runs, env, API_KEY, request, resp, body, cards, idx,
                   flat_variants, error, prior, treeVars>>

----------------------------------------------------------------------------
(* A run of a fetch script: the interpreter starts with nothing bound *)

Scripts == {"detail", "catalog"}

(* the values JUSTTCG_API_KEY may have when a script is started *)
EnvValues ==
    {EnvUnset, EnvSet(""), EnvSet("YOUR_API_KEY_HERE"), EnvSet("YOUR_"),
     EnvSet("tcg_live")}

(* only the detail fetcher reads the variable *)
EnvOf(s) == IF s = "detail" THEN EnvValues ELSE {EnvUnset}

Fresh(s, e) ==
    /\ script = s /\ env = e /\ pc = "config"
    /\ API_KEY = Unbound /\ request = NoRequest /\ resp = NoResponse
    /\ body = Unbound /\ cards = Unbound /\ idx = 0 /\ flat_variants = <<>>
    /\ error = "none"

TreeIdle == tree = {} /\ indent = 0 /\ lines = <<>>

Init ==
    /\ \E s \in Scripts : \E e \in EnvOf(s) : Fresh(s, e)
    /\ runs = 1 /\ fs = EmptyMap /\ prior = EmptyMap
    /\ TreeIdle

(* the script is started again in the same working directory *)
Invoke ==
    /\ pc \in {"done", "failed"} /\ runs < MaxRuns
    /\ runs' = runs + 1
    /\ \E s \in Scripts : script' = s /\ env' \in EnvOf(s)
    /\ pc' = "config"
    /\ API_KEY' = Unbound /\ request' = NoRequest /\ resp' = NoResponse
    /\ body' = Unbound /\ cards' = Unbound /\ idx' = 0 /\ flat_variants' = <<>>
    /\ error' = "none"
    /\ prior' = fs /\ fs' = fs
    /\ UNCHANGED treeVars

Next ==
    \/ DetailConfig \/ DetailRequest \/ DetailStatus \/ DetailShape
    \/ DetailFlattenCard \/ DetailWrite
    \/ CatalogConfig \/ CatalogRequest \/ CatalogStatus \/ CatalogReshape
    \/ CatalogWrite
    \/ Invoke

Spec == Init /\ [][Next]_vars

----------------------------------------------------------------------------
(* generate_tree.py *)

IGNORE == {".git", "__pycache__", ".vscode", "venv", "node_modules"}

(* ord(c) of the characters the names below are made of *)
ord(c) ==
    CASE c = "." -> 46 [] c = "B" -> 66 [] c = "_" -> 95 [] c = "a" -> 97
      [] c = "b" -> 98 [] c = "e" -> 101 [] c = "h" -> 104 [] c = "n" -> 110
      [] c = "v" -> 118

(* a < b of two str: by code point, a proper prefix first *)
RECURSIVE StrLess(_, _)
StrLess(a, b) ==
    IF b = "" THEN FALSE
    ELSE IF a = "" THEN TRUE
    ELSE IF SubSeq(a, 1, 1) # SubSeq(b, 1, 1)
    THEN ord(SubSeq(a, 1, 1)) < ord(SubSeq(b, 1, 1))
    ELSE StrLess(SubSeq(a, 2, Len(a)), SubSeq(b, 2, Len(b)))

(* sorted(S) of a collection of distinct str *)
RECURSIVE sorted(_)
sorted(S) ==
    IF S = {} THEN <<>>
    ELSE LET least == CHOOSE x \in S : \A y \in S \ {x} : StrLess(x, y)
         IN <<least>> \o sorted(S \ {least})

(* the file system below start_path: a set of [path, kind], the path being
   the names from start_path down, <<>> start_path itself; kind "locked" is
   a directory whose listing raises PermissionError *)
KindAt(path) == (CHOOSE e \in tree : e.path = path).kind
Exists(path) == \E e \in tree : e.path = path

(* os.path.isdir(path) *)
isdir(path) == Exists(path) /\ KindAt(path) \in {"dir", "locked"}

(* os.listdir(path) *)
listdir(path) ==
    {e.path[Len(e.path)] :
        e \in {x \in tree : /\ Len(x.path) = Len(path) + 1
                            /\ SubSeq(x.path, 1, Len(path)) = path}}

(* a filter that forgets the names starting with "." *)
KeptIgnoringOnlyIGNORE(item) == item \notin IGNORE

(* line 21: item not in IGNORE and not item.startswith(".") *)
Kept(item) == item \notin IGNORE /\ ~StartsWith(item, ".")

(* "  " * n *)
RECURSIVE Indentation(_)
Indentation(n) == IF n = 0 THEN "" ELSE "  " \o Indentation(n - 1)

(* line 28 *)
prefix(ind, item, item_path) ==
    Indentation(ind)
        \o (IF isdir(item_path) THEN "- **" \o item \o "**" ELSE "- " \o item)

RECURSIVE generate_markdown_tree(_, _)
RECURSIVE ForItems(_, _, _)

(* lines 26-31: the for loop over the sorted items *)
ForItems(start_path, ind, items) ==
    IF items = <<>> THEN <<>>
    ELSE LET item == Head(items)
             item_path == Append(start_path, item)
         IN <<prefix(ind, item, item_path)>>
                \o (IF isdir(item_path)
                    THEN generate_markdown_tree(item_path, ind + 1)
                    ELSE <<>>)
                \o ForItems(start_path, ind, Tail(items))

(* lines 15-32 *)
generate_markdown_tree(start_path, ind) ==
    IF KindAt(start_path) = "locked"
    THEN <<>>
    ELSE ForItems(start_path, ind,
                  sorted({item \in listdir(start_path) : Kept(item)}))

(* the names files and directories are given *)
TreeNames == {"a", "B", ".h", "venv"}

(* the script's directory before the call: the environment creates a file
   or a directory in start_path or in a directory below it *)
Create ==
    /\ pc = "tree-setup" /\ Cardinality(tree) <= MaxNodes
    /\ \E parent \in {e \in tree : e.kind # "file"}, name \in TreeNames,
          kind \in {"file", "dir", "locked"} :
          /\ ~Exists(Append(parent.path, name))
          /\ tree' = tree \cup {[path |-> Append(parent.path, name), kind |-> kind]}
    /\ UNCHANGED <<pc, indent, lines, fetchVars>>

(* the call generate_markdown_tree(start_path, indent) *)
Generate ==
    /\ pc = "tree-setup"
    /\ \E n \in 0..MaxIndent :
          /\ indent' = n
          /\ lines' = generate_markdown_tree(<<>>, n)
    /\ pc' = "tree-done"
    /\ UNCHANGED <<tree, fetchVars>>

InitTree ==
    /\ pc = "tree-setup"
    /\ \E k \in {"dir", "locked"} : tree = {[path |-> <<>>, kind |-> k]}
    /\ indent = 0 /\ lines = <<>>
    /\ script = "tree" /\ env = EnvUnset /\ runs = 0
    /\ API_KEY = Unbound /\ request = NoRequest /\ resp = NoResponse
    /\ body = Unbound /\ cards = Unbound /\ idx = 0 /\ flat_variants = <<>>
    /\ error = "none" /\ fs = EmptyMap /\ prior = EmptyMap

NextTree == Create \/ Generate

SpecTree == InitTree /\ [][NextTree]_vars

----------------------------------------------------------------------------
(* Properties of the fetch scripts.  They are stated on what can be observed: *)
(* the JSON document the API answered with, the request that went out, and    *)
(* the JSON documents in the working directory.                               *)

Answered200 == resp.received /\ resp.status_code = 200
DataIsArray(doc) ==
    doc.j = "object" /\ "data" \in DOMAIN doc.o /\ doc.o.data.j = "array"
DataPresentNotArray(doc) ==
    doc.j = "object" /\ "data" \in DOMAIN doc.o /\ doc.o.data.j # "array"
DataAbsent(doc) == doc.j = "object" /\ "data" \notin DOMAIN doc.o

(* the length of a card's "variants" sequence, 0 when empty, null or absent *)
VariantCount(item) ==
    IF item.j = "object" /\ "variants" \in DOMAIN item.o
       /\ item.o.variants.j = "array"
    THEN Len(item.o.variants.a) ELSE 0

RECURSIVE SumVariants(_)
SumVariants(items) ==
    IF items = <<>> THEN 0 ELSE VariantCount(Head(items)) + SumVariants(Tail(items))

(* every item of "data" is a card object whose "variants" is absent, null
   or a list of objects *)
WellFormedCards(doc) ==
    /\ DataIsArray(doc)
    /\ \A i \in 1..Len(doc.o.data.a) :
          LET item == doc.o.data.a[i]
          IN /\ item.j = "object"
             /\ "variants" \in DOMAIN item.o =>
                   \/ item.o.variants.j = "null"
                   \/ /\ item.o.variants.j = "array"
                      /\ \A n \in 1..Len(item.o.variants.a) :
                            item.o.variants.a[n].j = "object"

(* every item of "data" is an object *)
WellFormedSets(doc) ==
    /\ DataIsArray(doc)
    /\ \A i \in 1..Len(doc.o.data.a) : doc.o.data.a[i].j = "object"

(* the file the run writes *)
OutputName == IF script = "detail" THEN OUTPUT_FILE ELSE output_file

(* C1: in the detail fetcher, when "data" is a list of cards, the number of
   rows written to the output file is the sum of the lengths of the cards'
   "variants"; a card with empty, null or absent "variants" adds no row.
   Such a run does not fail once the answer is in. *)
C1_RowCountIsSumOfVariants ==
    /\ (script = "detail" /\ pc = "done" /\ DataIsArray(resp.text)) =>
          /\ OUTPUT_FILE \in DOMAIN fs
          /\ fs[OUTPUT_FILE].j = "array"
          /\ Len(fs[OUTPUT_FILE].a) = SumVariants(resp.text.o.data.a)
    /\ (script = "detail" /\ Answered200 /\ WellFormedCards(resp.text)) =>
          pc # "failed"

C1_Witness ==
    /\ script = "detail" /\ pc = "done"
    /\ resp.text = JObj([data |-> JArr(<<CardNoVariants, Card1>>)])
    /\ Len(fs[OUTPUT_FILE].a) = 2

(* the shared fields of a row and the card field each is taken from *)
SharedSource ==
    [card_id |-> "id", name |-> "name", game |-> "game", set_id |-> "set",
     set_name |-> "set_name", number |-> "number", rarity |-> "rarity",
     details |-> "details", tcgplayerId |-> "tcgplayerId",
     mtgjsonId |-> "mtgjsonId", scryfallId |-> "scryfallId"]

(* the position in "data" of the card that row r was flattened from *)
ParentIndex(items, r) ==
    CHOOSE c \in 1..Len(items) :
        /\ SumVariants(SubSeq(items, 1, c - 1)) < r
        /\ r <= SumVariants(SubSeq(items, 1, c))

(* C2: every row the detail fetcher emits, in memory and in the file, carries
   all eleven shared fields with the values the parent card has for them
   (null where the card has none); no variant field overwrites one. *)
C2_RowsCarryParentFields ==
    (script = "detail" /\ cards.t = "list") =>
        /\ \A r \in 1..Len(flat_variants) :
              LET card == resp.text.o.data.a[ParentIndex(resp.text.o.data.a, r)]
              IN \A k \in DOMAIN SharedSource :
                    /\ k \in DOMAIN flat_variants[r].kv
                    /\ flat_variants[r].kv[k] =
                          IF SharedSource[k] \in DOMAIN card.o
                          THEN json_loads(card.o[SharedSource[k]]) ELSE None
        /\ pc = "done" =>
              \A r \in 1..Len(fs[OUTPUT_FILE].a) :
                 LET card == resp.text.o.data.a[ParentIndex(resp.text.o.data.a, r)]
                 IN \A k \in DOMAIN SharedSource :
                       /\ k \in DOMAIN fs[OUTPUT_FILE].a[r].o
                       /\ fs[OUTPUT_FILE].a[r].o[k] =
                             IF SharedSource[k] \in DOMAIN card.o
                             THEN card.o[SharedSource[k]] ELSE JNull

C2_Witness ==
    /\ script = "detail" /\ pc = "done"
    /\ resp.text = JObj([data |-> JArr(<<Card1>>)])
    /\ Len(fs[OUTPUT_FILE].a) = 2
    /\ fs[OUTPUT_FILE].a[1].o.name = JStr("Snivy")
    /\ fs[OUTPUT_FILE].a[2].o.name = JStr("Snivy")
    /\ fs[OUTPUT_FILE].a[1].o.variant_id # fs[OUTPUT_FILE].a[2].o.variant_id

Placeholder == "YOUR_API_KEY_HERE"
BadCredential == API_KEY.t = "str" /\ API_KEY.s \in {"", Placeholder}

(* C3: in both scripts, a credential that is empty or the placeholder ends
   the run with the configuration error before any request is issued, and no
   file is written. *)
C3_BadCredentialFailsBeforeNetwork ==
    BadCredential =>
        /\ pc = "failed" /\ error = "RuntimeError"
        /\ request = NoRequest /\ resp = NoResponse
        /\ fs = prior

C3_Witness ==
    /\ script = "detail" /\ env = EnvSet("") /\ API_KEY = PyStr("")
    /\ pc = "failed" /\ request = NoRequest
    /\ runs = 2 /\ OUTPUT_FILE \in DOMAIN fs

(* C4: in both scripts a run that fails leaves the working directory as it
   found it: a 4xx/5xx answer ends the run with the HTTP error and no write,
   and a failure while reshaping discards the rows computed so far; the
   directory changes only in a run that completed. *)
C4_FailedRunWritesNothing ==
    /\ pc # "done" => fs = prior
    /\ (resp.received /\ resp.status_code >= 400) =>
          /\ pc \in {"status", "failed"}
          /\ pc = "failed" => error = "HTTPError"

C4_Witness ==
    /\ script = "detail" /\ pc = "failed" /\ error = "AttributeError"
    /\ Len(flat_variants) > 0
    /\ OUTPUT_FILE \in DOMAIN fs /\ fs = prior

(* C5: in both scripts a 200 answer whose "data" is present but no list
   aborts the run and nothing is written. *)
C5_NonListDataAborts ==
    (Answered200 /\ DataPresentNotArray(resp.text)) =>
        (pc \notin {"write", "done"} /\ fs = prior)

(* C6: in both scripts a 200 answer whose object has no "data" aborts the
   run; no file holding an empty list is written. *)
C6_MissingDataAborts ==
    (Answered200 /\ DataAbsent(resp.text)) =>
        (pc \notin {"write", "done"} /\ fs = prior)

CatalogFields == {"id", "name", "variants_count", "cards_count"}

(* C7: in the catalog fetcher the persisted list has one entry per item of
   "data", in order, each with the item's id, name, variants_count and
   cards_count unchanged and null for a field the item lacks.  A run whose
   items are all objects does not fail once the answer is in. *)
C7_CatalogEntriesMirrorItems ==
    /\ (script = "catalog" /\ pc = "done" /\ DataIsArray(resp.text)) =>
          LET items == resp.text.o.data.a
              out == fs[output_file]
          IN /\ out.j = "array"
             /\ Len(out.a) = Len(items)
             /\ \A i \in 1..Len(items) :
                   /\ out.a[i].j = "object"
                   /\ DOMAIN out.a[i].o = CatalogFields
                   /\ \A k \in CatalogFields :
                         out.a[i].o[k] =
                            IF k \in DOMAIN items[i].o THEN items[i].o[k] ELSE JNull
    /\ (script = "catalog" /\ Answered200 /\ WellFormedSets(resp.text)) =>
          pc # "failed"

C7_Witness ==
    /\ script = "catalog" /\ pc = "done"
    /\ resp.text = JObj([data |-> JArr(<<Set1, Set2>>)])
    /\ fs[output_file].a[1].o.cards_count = JNum(10)
    /\ fs[output_file].a[2].o.variants_count = JNull
    /\ fs[output_file].a[2].o.cards_count = JNum(0)

(* C8: a completed run leaves in its output file exactly the rows it
   computed, whatever the file held before, and changes no other file; a run
   that did not complete changes nothing, so the file always holds the rows
   of the latest completed run. *)
C8_FullRefresh ==
    /\ pc # "done" => fs = prior
    /\ pc = "done" =>
          /\ DOMAIN fs = DOMAIN prior \cup {OutputName}
          /\ fs[OutputName] = json_dump(PyList(flat_variants))
          /\ \A n \in DOMAIN prior \ {OutputName} : fs[n] = prior[n]

C8_Witness ==
    /\ pc = "done" /\ runs = 2
    /\ OutputName \in DOMAIN prior
    /\ Len(prior[OutputName].a) = 4
    /\ Len(flat_variants) = 2
    /\ Len(fs[OutputName].a) = 2

(* the parameters of the request that select items within the set *)
ItemFilters == {"condition", "q", "number"}

(* C9: the detail fetcher's file name is the one derived from the set and an
   item filter of the request that was sent. *)
C9_NameReflectsQueriedScope ==
    (script = "detail" /\ request.sent) =>
        \E k \in ItemFilters \cap DOMAIN request.params :
            OUTPUT_FILE = VariantsFileName(request.params.set, request.params[k])

----------------------------------------------------------------------------
(* Properties of generate_markdown_tree, stated on the file system and the
   returned lines *)

Filtered(name) == name \in IGNORE \/ SubSeq(name, 1, 1) = "."

(* the entries the traversal reaches: no name on the path is filtered and
   every directory above the entry, start_path included, can be listed *)
Reachable ==
    {e \in tree :
        /\ Len(e.path) >= 1
        /\ \A i \in 1..Len(e.path) : ~Filtered(e.path[i])
        /\ \A i \in 0..(Len(e.path) - 1) : KindAt(SubSeq(e.path, 1, i)) = "dir"}

(* p comes before q in a depth-first walk that visits siblings in name
   order: a directory before what is below it *)
RECURSIVE PathLess(_, _)
PathLess(p, q) ==
    IF q = <<>> THEN FALSE
    ELSE IF p = <<>> THEN TRUE
    ELSE IF Head(p) # Head(q) THEN StrLess(Head(p), Head(q))
    ELSE PathLess(Tail(p), Tail(q))

Rank(e) == 1 + Cardinality({f \in Reachable : PathLess(f.path, e.path)})

Below(e) ==
    {f \in Reachable : /\ Len(f.path) > Len(e.path)
                       /\ SubSeq(f.path, 1, Len(e.path)) = e.path}

(* the spaces a line starts with *)
RECURSIVE LeadingSpaces(_)
LeadingSpaces(line) ==
    IF line # "" /\ SubSeq(line, 1, 1) = " "
    THEN 1 + LeadingSpaces(SubSeq(line, 2, Len(line))) ELSE 0

(* the text of a line after its indentation *)
Label(e) ==
    LET name == e.path[Len(e.path)]
    IN IF e.kind = "file" THEN "- " \o name ELSE "- **" \o name \o "**"

(* C10: the result has exactly one line per reachable entry; nothing
   filtered and nothing below a filtered entry has a line; the lines are in
   depth-first order with siblings sorted by name, so a directory's line is
   directly followed by the lines of what is below it; the line of an entry
   d directories below start_path (d = 0 for an entry of start_path itself)
   starts with 2*(indent+d) spaces; a directory that cannot be listed has
   its line and no line below it. *)
C10_TreeLines ==
    pc = "tree-done" =>
        /\ Len(lines) = Cardinality(Reachable)
        /\ \A e \in Reachable :
              /\ Rank(e) \in 1..Len(lines)
              /\ LeadingSpaces(lines[Rank(e)]) = 2 * (indent + Len(e.path) - 1)
              /\ SubSeq(lines[Rank(e)], LeadingSpaces(lines[Rank(e)]) + 1,
                        Len(lines[Rank(e)])) = Label(e)
              /\ \A f \in Below(e) :
                    Rank(e) < Rank(f) /\ Rank(f) <= Rank(e) + Cardinality(Below(e))
              /\ e.kind = "locked" => Below(e) = {}
        /\ \A e \in tree, f \in tree :
              (e \in Reachable /\ f \in Reachable /\ Len(e.path) = Len(f.path)
                 /\ SubSeq(e.path, 1, Len(e.path) - 1) = SubSeq(f.path, 1, Len(f.path) - 1)
                 /\ StrLess(e.path[Len(e.path)], f.path[Len(f.path)]))
              => Rank(e) < Rank(f)

(* a listing with a sorted sibling pair, an entry below a directory, an
   ignored directory with a file in it, at a non-zero indent *)
C10_Witness ==
    /\ pc = "tree-done" /\ indent = 1
    /\ tree = {[path |-> <<>>, kind |-> "dir"],
               [path |-> <<"a">>, kind |-> "dir"],
               [path |-> <<"a", "B">>, kind |-> "file"],
               [path |-> <<"B">>, kind |-> "locked"]}
    /\ lines = <<"  - **B**", "  - **a**", "    - B">>

C10_WitnessFiltered ==
    /\ pc = "tree-done"
    /\ tree = {[path |-> <<>>, kind |-> "dir"],
               [path |-> <<"venv">>, kind |-> "dir"],
               [path |-> <<"venv", "a">>, kind |-> "file"],
               [path |-> <<".h">>, kind |-> "file"]}
    /\ lines = <<>>

C10_WitnessLocked ==
    /\ pc = "tree-done"
    /\ tree = {[path |-> <<>>, kind |-> "dir"],
               [path |-> <<"a">>, kind |-> "locked"],
               [path |-> <<"a", "B">>, kind |-> "file"],
               [path |-> <<"B">>, kind |-> "file"]}
    /\ lines = <<"- B", "- **a**">>

====
